---- MODULE Spec2Model ----
(***************************************************************************)
(* tokio-openssl-symm: EncryptWriter (AsyncWrite adapter) and              *)
(* DecryptReader (AsyncRead adapter) over an openssl Crypter.              *)
(*                                                                         *)
(* The adapters' fields are modelled as records with the source's field    *)
(* names; every poll_* handler is an operator from (adapter, inputs) to    *)
(* (return value, adapter', effects), and one action applies it.  The      *)
(* openssl Crypter is modelled as a padded CBC block cipher over a small   *)
(* byte alphabet; the underlying sink and source answer each poll call     *)
(* with Ready(Ok(n)), Pending or Ready(Err).                               *)
(***************************************************************************)
EXTENDS Integers, Sequences, FiniteSets, TLC

\* ------------------------------------------------------------------ bounds

\* cipher.block_size() of the modelled cipher, in bytes.
BlockSize == 2
\* Total plaintext bytes the caller hands to successful writes.
MaxPlain == 3
\* Ready(Ok(n)) answers the sink gives within one drain before it answers
\* Pending or Err.
MaxPolls == 2
\* Error returns after which the caller stops using an adapter.
MaxErrs == 1
\* Calls of Crypter::finalize the decrypt side is followed through.
MaxFinal == 2

\* Calls of the sink's poll_write one invocation is followed through, when
\* followed poll by poll.
MaxAttempts == 3

\* Longest slice passed to one write call: the whole plaintext.
MaxChunk == MaxPlain
\* Largest destination buffer passed to one read call: read buffers range
\* from smaller than a cipher block to larger than one.
MaxCap == BlockSize + 1

\* ------------------------------------------------------------- byte helpers

\* Bytes are 0..BlockSize, so that every PKCS#7 padding value 1..BlockSize
\* is a byte; arithmetic on bytes is modulo Mod.
Mod == BlockSize + 1
Byte == 0 .. BlockSize
\* The byte values the caller's plaintext and an arbitrary source are drawn
\* from; the cipher's outputs range over all of Byte.
InputByte == 0 .. 1

Min(a, b) == IF a < b THEN a ELSE b

\* vec![0; n]
Zeros(n) == [i \in 1 .. n |-> 0]

\* Vec::resize(n, 0): truncate, or extend with zero bytes.
Resize(v, n) == [i \in 1 .. n |-> IF i <= Len(v) THEN v[i] ELSE 0]

\* Vec::truncate(n)
Truncate(v, n) == IF n < Len(v) THEN SubSeq(v, 1, n) ELSE v

\* The cipher writes `out` into v[off..] (off is 0-based), leaving the rest.
WriteInto(v, off, out) ==
    [i \in 1 .. Len(v) |->
        IF i > off /\ i <= off + Len(out) THEN out[i - off] ELSE v[i]]

IsPrefix(s, t) == Len(s) <= Len(t) /\ SubSeq(t, 1, Len(s)) = s

\* All sequences over S of length at most n.
SeqsUpTo(S, n) == UNION {[1 .. k -> S] : k \in 0 .. n}

\* ------------------------------------------------------------ cipher model
\* openssl::symm::Crypter for a block cipher in CBC mode with PKCS#7
\* padding (the crate's default; the adapters never disable padding).

\* The all-zero IV of the end-to-end scenario.
IV == Zeros(BlockSize)

\* The block transform under the fixed key, chained with the previous
\* ciphertext block.
EncBlock(p, prev) == [i \in 1 .. BlockSize |-> (p[i] + prev[i] + i) % Mod]
DecBlock(c, prev) == [i \in 1 .. BlockSize |-> (c[i] - prev[i] - i + 3 * Mod) % Mod]

RECURSIVE CbcEncrypt(_, _)
CbcEncrypt(data, prev) ==
    IF Len(data) < BlockSize THEN <<>>
    ELSE LET c == EncBlock(SubSeq(data, 1, BlockSize), prev)
         IN  c \o CbcEncrypt(SubSeq(data, BlockSize + 1, Len(data)), c)

RECURSIVE CbcDecrypt(_, _)
CbcDecrypt(data, prev) ==
    IF Len(data) < BlockSize THEN <<>>
    ELSE LET c == SubSeq(data, 1, BlockSize)
         IN  DecBlock(c, prev) \o CbcDecrypt(SubSeq(data, BlockSize + 1, Len(data)), c)

\* The chaining value after processing `blocks` (a whole number of
\* ciphertext blocks).
Chain(blocks, prev) ==
    IF Len(blocks) = 0 THEN prev
    ELSE SubSeq(blocks, Len(blocks) - BlockSize + 1, Len(blocks))

\* Crypter::new: no partial block, no held-back block, chaining at the IV.
\*   part : input bytes of an incomplete block
\*   held : decrypt only, the last decrypted block, held back until finalize
\*   nfin : how many times finalize has been called (ghost)
\*   uaf  : update has been called after finalize (ghost)
NewCrypter ==
    [part |-> <<>>, held |-> <<>>, prev |-> IV, nfin |-> 0, uaf |-> FALSE]

Bump(n) == IF n < MaxFinal THEN n + 1 ELSE n

\* Crypter::update in Mode::Encrypt.  `fail` is the library's answer Err:
\* the state is then left as it was.  Output: every complete block of
\* part \o input, encrypted; at most Len(input) + BlockSize - 1 bytes.
EncUpdate(c, input, fail) ==
    LET seen == [c EXCEPT !.uaf = c.uaf \/ c.nfin > 0]
        data == c.part \o input
        nfull == (Len(data) \div BlockSize) * BlockSize
        out == CbcEncrypt(SubSeq(data, 1, nfull), c.prev)
    IN  IF fail THEN [ok |-> FALSE, out |-> <<>>, st |-> seen]
        ELSE [ok |-> TRUE, out |-> out,
              st |-> [seen EXCEPT !.part = SubSeq(data, nfull + 1, Len(data)),
                                  !.prev = Chain(out, c.prev)]]

\* Crypter::finalize in Mode::Encrypt: the partial block, padded with
\* k bytes of value k (k = BlockSize - Len(part), 1..BlockSize), encrypted.
EncFinalize(c, fail) ==
    LET seen == [c EXCEPT !.nfin = Bump(c.nfin)]
        k == BlockSize - Len(c.part)
        padded == c.part \o [i \in 1 .. k |-> k]
    IN  IF fail THEN [ok |-> FALSE, out |-> <<>>, st |-> seen]
        ELSE [ok |-> TRUE, out |-> EncBlock(padded, c.prev), st |-> seen]

\* Crypter::update in Mode::Decrypt (EVP_DecryptUpdate with padding): emits
\* the held-back block, decrypts every complete block of part \o input, and
\* when no partial block remains holds the last decrypted block back.
DecUpdate(c, input, fail) ==
    LET seen == [c EXCEPT !.uaf = c.uaf \/ c.nfin > 0]
        data == c.part \o input
        nfull == (Len(data) \div BlockSize) * BlockSize
        blocks == SubSeq(data, 1, nfull)
        rest == SubSeq(data, nfull + 1, Len(data))
        all == c.held \o CbcDecrypt(blocks, c.prev)
        hold == Len(rest) = 0 /\ Len(all) >= BlockSize
        nout == IF hold THEN Len(all) - BlockSize ELSE Len(all)
    IN  IF fail THEN [ok |-> FALSE, out |-> <<>>, st |-> seen]
        ELSE IF Len(input) = 0 THEN [ok |-> TRUE, out |-> <<>>, st |-> seen]
        ELSE [ok |-> TRUE, out |-> SubSeq(all, 1, nout),
              st |-> [seen EXCEPT !.part = rest,
                                  !.held = SubSeq(all, nout + 1, Len(all)),
                                  !.prev = Chain(blocks, c.prev)]]

\* The padding of a decrypted final block is k bytes of value k.
PadOk(b) ==
    /\ Len(b) = BlockSize
    /\ b[BlockSize] \in 1 .. BlockSize
    /\ \A i \in 1 .. BlockSize : i > BlockSize - b[BlockSize] => b[i] = b[BlockSize]

\* Crypter::finalize in Mode::Decrypt (EVP_DecryptFinal_ex): fails on a
\* partial block, on a missing final block and on bad padding; otherwise
\* returns the held-back block without its padding.
DecFinalize(c, fail) ==
    LET seen == [c EXCEPT !.nfin = Bump(c.nfin)]
    IN  IF fail \/ Len(c.part) # 0 \/ ~PadOk(c.held)
        THEN [ok |-> FALSE, out |-> <<>>, st |-> seen]
        ELSE [ok |-> TRUE,
              out |-> SubSeq(c.held, 1, BlockSize - c.held[BlockSize]),
              st |-> seen]

\* Reference one-shot encryption of a whole plaintext: update once, finalize.
Encrypt(plaintext) ==
    LET u == EncUpdate(NewCrypter, plaintext, FALSE)
    IN  u.out \o EncFinalize(u.st, FALSE).out

\* ---------------------------------------------------------- EncryptWriter

\* EncryptWriter::new
NewEncryptWriter ==
    [crypter |-> NewCrypter, written |-> 0, buf |-> <<>>, is_finalized |-> FALSE]

\* What a handler hands back: the Poll it returns (res is "ok", "pending",
\* "err_io" for an error of the underlying I/O, "err_other" for
\* IoErrorKind::Other; n is the byte count of Ready(Ok(n))), the adapter
\* after the call, the bytes the underlying sink has accepted, whether the
\* underlying sink is shut down, the calls made on the cipher and on the
\* underlying I/O in order, the cipher output of this call, and the
\* <<written, Len(buf)>> the cipher call found.
Outcome(res, n, self, sink, closed, calls, out, pre) ==
    [ret |-> [res |-> res, n |-> n], self |-> self, sink |-> sink,
     closed |-> closed, calls |-> calls, out |-> out, pre |-> pre]

\* poll_write_buf: the drain loop.  `script` holds the byte counts of the
\* sink's successive Ready(Ok(n)) answers (the sink takes at most what it
\* is offered); once the script is used up the sink answers `stop`
\* ("pending" or "err_io").
\* The drain with the cursor ignored when slicing: after a partial write
\* it offers the buffer from its start again.
RECURSIVE poll_write_buf_resend(_, _, _, _, _, _)
poll_write_buf_resend(buf, written, sink, script, stop, calls) ==
    IF written < Len(buf)
    THEN IF Len(script) = 0
         THEN [res |-> stop, buf |-> buf, written |-> written, sink |-> sink,
               calls |-> Append(calls, "w.poll_write")]
         ELSE LET n == Min(Head(script), Len(buf) - written)
              IN  poll_write_buf_resend(buf, written + n,
                                        sink \o SubSeq(buf, 1, n),
                                        Tail(script), stop,
                                        Append(calls, "w.poll_write"))
    ELSE [res |-> "ok", buf |-> <<>>, written |-> 0, sink |-> sink,
          calls |-> calls]

RECURSIVE poll_write_buf(_, _, _, _, _, _)
poll_write_buf(buf, written, sink, script, stop, calls) ==
    IF written < Len(buf)
    THEN IF Len(script) = 0
         THEN [res |-> stop, buf |-> buf, written |-> written, sink |-> sink,
               calls |-> Append(calls, "w.poll_write")]
         ELSE LET n == Min(Head(script), Len(buf) - written)
              IN  poll_write_buf(buf, written + n,
                                 sink \o SubSeq(buf, written + 1, written + n),
                                 Tail(script), stop,
                                 Append(calls, "w.poll_write"))
    ELSE [res |-> "ok", buf |-> <<>>, written |-> 0, sink |-> sink,
          calls |-> calls]

\* poll_write running the cipher before the drain: a write that returns
\* Pending has already consumed its input.
poll_write_eager(self, sink, closed, input, script, stop, cfail) ==
    LET u == EncUpdate(self.crypter, input, cfail)
        d == poll_write_buf(self.buf, self.written, sink, script, stop,
                            <<"update">>)
        drained == [self EXCEPT !.buf = d.buf, !.written = d.written,
                                !.crypter = u.st]
        resized == Resize(d.buf, Len(input) + BlockSize)
        pre == <<self.written, Len(self.buf)>>
    IN  IF d.res # "ok"
        THEN Outcome(d.res, 0, drained, d.sink, closed, d.calls, <<>>, pre)
        ELSE IF ~u.ok
        THEN Outcome("err_other", 0, [drained EXCEPT !.buf = resized],
                     d.sink, closed, d.calls, <<>>, pre)
        ELSE Outcome("ok", Len(input),
                     [drained EXCEPT
                        !.buf = Truncate(WriteInto(resized, 0, u.out), Len(u.out))],
                     d.sink, closed, d.calls, u.out, pre)

\* poll_write without the final truncate: the buffer keeps the zero bytes
\* of the resize after the cipher's output.
poll_write_notrunc(self, sink, closed, input, script, stop, cfail) ==
    LET d == poll_write_buf(self.buf, self.written, sink, script, stop, <<>>)
        drained == [self EXCEPT !.buf = d.buf, !.written = d.written]
        resized == Resize(d.buf, Len(input) + BlockSize)
        u == EncUpdate(self.crypter, input, cfail)
        calls == Append(d.calls, "update")
        pre == <<d.written, Len(d.buf)>>
    IN  IF d.res # "ok"
        THEN Outcome(d.res, 0, drained, d.sink, closed, d.calls, <<>>, <<>>)
        ELSE IF ~u.ok
        THEN Outcome("err_other", 0,
                     [drained EXCEPT !.buf = resized, !.crypter = u.st],
                     d.sink, closed, calls, <<>>, pre)
        ELSE Outcome("ok", Len(input),
                     [drained EXCEPT !.buf = WriteInto(resized, 0, u.out),
                                     !.crypter = u.st],
                     d.sink, closed, calls, u.out, pre)

\* EncryptWriter::poll_write(buf = input).  cfail: Crypter::update fails.
poll_write(self, sink, closed, input, script, stop, cfail) ==
    LET d == poll_write_buf(self.buf, self.written, sink, script, stop, <<>>)
        drained == [self EXCEPT !.buf = d.buf, !.written = d.written]
        resized == Resize(d.buf, Len(input) + BlockSize)
        u == EncUpdate(self.crypter, input, cfail)
        calls == Append(d.calls, "update")
        pre == <<d.written, Len(d.buf)>>
    IN  IF d.res # "ok"
        THEN Outcome(d.res, 0, drained, d.sink, closed, d.calls, <<>>, <<>>)
        ELSE IF ~u.ok
        THEN Outcome("err_other", 0,
                     [drained EXCEPT !.buf = resized, !.crypter = u.st],
                     d.sink, closed, calls, <<>>, pre)
        ELSE Outcome("ok", Len(input),
                     [drained EXCEPT
                        !.buf = Truncate(WriteInto(resized, 0, u.out), Len(u.out)),
                        !.crypter = u.st],
                     d.sink, closed, calls, u.out, pre)

\* poll_flush that does not wait for the sink's flush: it answers Ok when
\* the forwarded poll_flush answered Pending.
poll_flush_nowait(self, sink, closed, script, stop, ures) ==
    LET d == poll_write_buf(self.buf, self.written, sink, script, stop, <<>>)
        drained == [self EXCEPT !.buf = d.buf, !.written = d.written]
    IN  IF d.res # "ok"
        THEN Outcome(d.res, 0, drained, d.sink, closed, d.calls, <<>>, <<>>)
        ELSE Outcome(IF ures = "pending" THEN "ok" ELSE ures, 0, drained,
                     d.sink, closed, Append(d.calls, "w.poll_flush"), <<>>, <<>>)

\* poll_flush forwarding the flush whatever the drain returned: an error
\* of the sink's poll_write is followed by a further call and is lost.
poll_flush_onward(self, sink, closed, script, stop, ures) ==
    LET d == poll_write_buf(self.buf, self.written, sink, script, stop, <<>>)
        drained == [self EXCEPT !.buf = d.buf, !.written = d.written]
    IN  IF d.res = "pending"
        THEN Outcome(d.res, 0, drained, d.sink, closed, d.calls, <<>>, <<>>)
        ELSE Outcome(ures, 0, drained, d.sink, closed,
                     Append(d.calls, "w.poll_flush"), <<>>, <<>>)

\* EncryptWriter::poll_flush.  ures: the answer of the sink's poll_flush.
poll_flush(self, sink, closed, script, stop, ures) ==
    LET d == poll_write_buf(self.buf, self.written, sink, script, stop, <<>>)
        drained == [self EXCEPT !.buf = d.buf, !.written = d.written]
    IN  IF d.res # "ok"
        THEN Outcome(d.res, 0, drained, d.sink, closed, d.calls, <<>>, <<>>)
        ELSE Outcome(ures, 0, drained, d.sink, closed,
                     Append(d.calls, "w.poll_flush"), <<>>, <<>>)

\* poll_shutdown without the is_finalized guard: every invocation runs
\* the cipher's finalize step.
poll_shutdown_noguard(self, sink, closed, script, stop, cfail, ures) ==
    LET init_len == Len(self.buf)
        resized == Resize(self.buf, init_len + BlockSize)
        f == EncFinalize(self.crypter, cfail)
        finalized ==
            [self EXCEPT
               !.buf = Truncate(WriteInto(resized, init_len, f.out),
                                init_len + Len(f.out)),
               !.crypter = f.st,
               !.is_finalized = TRUE]
        pre == <<self.written, init_len>>
        d == poll_write_buf(finalized.buf, finalized.written, sink, script,
                            stop, <<"finalize">>)
        drained == [finalized EXCEPT !.buf = d.buf, !.written = d.written]
    IN  IF ~f.ok
        THEN Outcome("err_other", 0,
                     [self EXCEPT !.buf = resized, !.crypter = f.st],
                     sink, closed, <<"finalize">>, <<>>, pre)
        ELSE IF d.res # "ok"
        THEN Outcome(d.res, 0, drained, d.sink, closed, d.calls, f.out, pre)
        ELSE Outcome(ures, 0, drained, d.sink, closed \/ ures = "ok",
                     Append(d.calls, "w.poll_shutdown"), f.out, pre)

\* poll_shutdown writing the finalize output at the start of the buffer
\* instead of appending it: ciphertext still buffered is overwritten.
poll_shutdown_overwrite(self, sink, closed, script, stop, cfail, ures) ==
    LET f == EncFinalize(self.crypter, cfail)
        finalized ==
            IF self.is_finalized THEN self
            ELSE [self EXCEPT !.buf = f.out, !.written = 0, !.crypter = f.st,
                              !.is_finalized = TRUE]
        fcalls == IF self.is_finalized THEN <<>> ELSE <<"finalize">>
        fout == IF self.is_finalized THEN <<>> ELSE f.out
        pre == IF self.is_finalized THEN <<>> ELSE <<self.written, Len(self.buf)>>
        d == poll_write_buf(finalized.buf, finalized.written, sink, script,
                            stop, fcalls)
        drained == [finalized EXCEPT !.buf = d.buf, !.written = d.written]
    IN  IF ~self.is_finalized /\ ~f.ok
        THEN Outcome("err_other", 0, [self EXCEPT !.crypter = f.st],
                     sink, closed, fcalls, <<>>, pre)
        ELSE IF d.res # "ok"
        THEN Outcome(d.res, 0, drained, d.sink, closed, d.calls, fout, pre)
        ELSE Outcome(ures, 0, drained, d.sink, closed \/ ures = "ok",
                     Append(d.calls, "w.poll_shutdown"), fout, pre)

\* poll_shutdown forwarding the shutdown when the drain returned Pending:
\* the sink is shut down with ciphertext still in the buffer.
poll_shutdown_early(self, sink, closed, script, stop, cfail, ures) ==
    LET init_len == Len(self.buf)
        resized == Resize(self.buf, init_len + BlockSize)
        f == EncFinalize(self.crypter, cfail)
        finalized ==
            IF self.is_finalized THEN self
            ELSE [self EXCEPT
                    !.buf = Truncate(WriteInto(resized, init_len, f.out),
                                     init_len + Len(f.out)),
                    !.crypter = f.st,
                    !.is_finalized = TRUE]
        fcalls == IF self.is_finalized THEN <<>> ELSE <<"finalize">>
        fout == IF self.is_finalized THEN <<>> ELSE f.out
        pre == IF self.is_finalized THEN <<>> ELSE <<self.written, init_len>>
        d == poll_write_buf(finalized.buf, finalized.written, sink, script,
                            stop, fcalls)
        drained == [finalized EXCEPT !.buf = d.buf, !.written = d.written]
    IN  IF ~self.is_finalized /\ ~f.ok
        THEN Outcome("err_other", 0,
                     [self EXCEPT !.buf = resized, !.crypter = f.st],
                     sink, closed, fcalls, <<>>, pre)
        ELSE IF d.res = "err_io"
        THEN Outcome(d.res, 0, drained, d.sink, closed, d.calls, fout, pre)
        ELSE Outcome(ures, 0, drained, d.sink, closed \/ ures = "ok",
                     Append(d.calls, "w.poll_shutdown"), fout, pre)

\* EncryptWriter::poll_shutdown.  cfail: Crypter::finalize fails;
\* ures: the answer of the sink's poll_shutdown.
poll_shutdown(self, sink, closed, script, stop, cfail, ures) ==
    LET init_len == Len(self.buf)
        resized == Resize(self.buf, init_len + BlockSize)
        f == EncFinalize(self.crypter, cfail)
        finalized ==
            IF self.is_finalized THEN self
            ELSE [self EXCEPT
                    !.buf = Truncate(WriteInto(resized, init_len, f.out),
                                     init_len + Len(f.out)),
                    !.crypter = f.st,
                    !.is_finalized = TRUE]
        fcalls == IF self.is_finalized THEN <<>> ELSE <<"finalize">>
        fout == IF self.is_finalized THEN <<>> ELSE f.out
        pre == IF self.is_finalized THEN <<>> ELSE <<self.written, init_len>>
        d == poll_write_buf(finalized.buf, finalized.written, sink, script,
                            stop, fcalls)
        drained == [finalized EXCEPT !.buf = d.buf, !.written = d.written]
    IN  IF ~self.is_finalized /\ ~f.ok
        THEN Outcome("err_other", 0,
                     [self EXCEPT !.buf = resized, !.crypter = f.st],
                     sink, closed, fcalls, <<>>, pre)
        ELSE IF d.res # "ok"
        THEN Outcome(d.res, 0, drained, d.sink, closed, d.calls, fout, pre)
        ELSE Outcome(ures, 0, drained, d.sink, closed \/ ures = "ok",
                     Append(d.calls, "w.poll_shutdown"), fout, pre)

\* ---------------------------------------------------------- DecryptReader

\* DecryptReader::new
NewDecryptReader == [crypter |-> NewCrypter, read |-> 0, buf |-> <<>>]

\* What poll_read hands back: as Outcome, with the bytes copied into the
\* caller's buffer (`data`, of length ret.n) and the number of bytes taken
\* from the underlying source.
ReadOutcome(res, data, self, taken, calls, out) ==
    [ret |-> [res |-> res, n |-> Len(data)], data |-> data, self |-> self,
     taken |-> taken, calls |-> calls, out |-> out]

\* The copy-out taking the bytes from the start of the decrypted buffer
\* instead of from the read cursor.
CopyOut_fromstart(self, cap, available, taken, calls, out) ==
    LET src_buf == SubSeq(self.buf, 1, Min(cap, available))
    IN  ReadOutcome("ok", src_buf,
                    [self EXCEPT !.read = self.read + Len(src_buf)],
                    taken, calls, out)

\* The copy-out advancing the cursor by the length of the caller's buffer
\* instead of the number of bytes copied.
CopyOut_bycap(self, cap, available, taken, calls, out) ==
    LET src_buf == IF cap >= available
                   THEN SubSeq(self.buf, self.read + 1, Len(self.buf))
                   ELSE SubSeq(self.buf, self.read + 1, self.read + cap)
    IN  ReadOutcome("ok", src_buf, [self EXCEPT !.read = self.read + cap],
                    taken, calls, out)

\* The copy-out at the end of poll_read: src_buf, the cursor advance.
CopyOut(self, cap, available, taken, calls, out) ==
    LET src_buf == IF cap >= available
                   THEN SubSeq(self.buf, self.read + 1, Len(self.buf))
                   ELSE SubSeq(self.buf, self.read + 1, self.read + cap)
    IN  ReadOutcome("ok", src_buf,
                    [self EXCEPT !.read = self.read + Len(src_buf)],
                    taken, calls, out)

\* poll_read without the truncate after the cipher call: the decrypted
\* buffer keeps the zero bytes of the resize.
poll_read_notrunc(self, cap, sres, sdata, cfail) ==
    LET cleared == [self EXCEPT !.read = 0, !.buf = <<>>]
        n == Len(sdata)
        f == DecFinalize(self.crypter, cfail)
        u == DecUpdate(self.crypter, sdata, cfail)
        c == IF n = 0 THEN f ELSE u
        name == IF n = 0 THEN "finalize" ELSE "update"
        resized == IF n = 0 THEN Resize(<<>>, BlockSize)
                   ELSE Resize(<<>>, n + BlockSize)
        filled == [cleared EXCEPT !.buf = WriteInto(resized, 0, c.out),
                                  !.crypter = c.st]
    IN  IF Len(self.buf) - self.read # 0
        THEN CopyOut(self, cap, Len(self.buf) - self.read, 0, <<>>, <<>>)
        ELSE IF sres # "ok"
        THEN ReadOutcome(sres, <<>>, cleared, 0, <<"r.poll_read">>, <<>>)
        ELSE IF ~c.ok
        THEN ReadOutcome("err_other", <<>>,
                         [cleared EXCEPT !.buf = resized, !.crypter = c.st],
                         n, <<"r.poll_read", name>>, <<>>)
        ELSE CopyOut(filled, cap, Len(c.out), n, <<"r.poll_read", name>>, c.out)

\* poll_read refilling on every call: unread bytes of the decrypted buffer
\* are discarded and the source is read again.
poll_read_refill(self, cap, sres, sdata, cfail) ==
    LET cleared == [self EXCEPT !.read = 0, !.buf = <<>>]
        n == Len(sdata)
        f == DecFinalize(self.crypter, cfail)
        u == DecUpdate(self.crypter, sdata, cfail)
        c == IF n = 0 THEN f ELSE u
        name == IF n = 0 THEN "finalize" ELSE "update"
        resized == IF n = 0 THEN Resize(<<>>, BlockSize)
                   ELSE Resize(<<>>, n + BlockSize)
        filled == [cleared EXCEPT
                     !.buf = Truncate(WriteInto(resized, 0, c.out), Len(c.out)),
                     !.crypter = c.st]
    IN  IF sres # "ok"
        THEN ReadOutcome(sres, <<>>, cleared, 0, <<"r.poll_read">>, <<>>)
        ELSE IF ~c.ok
        THEN ReadOutcome("err_other", <<>>,
                         [cleared EXCEPT !.buf = resized, !.crypter = c.st],
                         n, <<"r.poll_read", name>>, <<>>)
        ELSE CopyOut(filled, cap, Len(c.out), n, <<"r.poll_read", name>>, c.out)

\* DecryptReader::poll_read(buf of length cap).  sres/sdata: the answer of
\* the source's poll_read, "ok" with the bytes it put into buf (none at
\* end of input), "pending" or "err_io"; cfail: the cipher call fails.
poll_read(self, cap, sres, sdata, cfail) ==
    LET cleared == [self EXCEPT !.read = 0, !.buf = <<>>]
        n == Len(sdata)
        f == DecFinalize(self.crypter, cfail)
        u == DecUpdate(self.crypter, sdata, cfail)
        c == IF n = 0 THEN f ELSE u
        name == IF n = 0 THEN "finalize" ELSE "update"
        resized == IF n = 0 THEN Resize(<<>>, BlockSize)
                   ELSE Resize(<<>>, n + BlockSize)
        filled == [cleared EXCEPT
                     !.buf = Truncate(WriteInto(resized, 0, c.out), Len(c.out)),
                     !.crypter = c.st]
    IN  IF Len(self.buf) - self.read # 0
        THEN CopyOut(self, cap, Len(self.buf) - self.read, 0, <<>>, <<>>)
        ELSE IF sres # "ok"
        THEN ReadOutcome(sres, <<>>, cleared, 0, <<"r.poll_read">>, <<>>)
        ELSE IF ~c.ok
        THEN ReadOutcome("err_other", <<>>,
                         [cleared EXCEPT !.buf = resized, !.crypter = c.st],
                         n, <<"r.poll_read", name>>, <<>>)
        ELSE CopyOut(filled, cap, Len(c.out), n, <<"r.poll_read", name>>, c.out)

\* ------------------------------------------------------------ the system
\* One EncryptWriter whose underlying sink feeds, as a pipe, the underlying
\* source of one DecryptReader.

VARIABLES
    enc,        \* the EncryptWriter
    dec,        \* the DecryptReader
    sink,       \* bytes the underlying sink has accepted, in order
    closed,     \* the underlying sink's poll_shutdown has returned Ok
    srcPos,     \* how many bytes of `sink` the underlying source has yielded
    plain,      \* ghost: plaintext of the writes that returned Ok, in order
    chunks,     \* ghost: the lengths of the non-empty writes that returned Ok
    produced,   \* ghost: outputs of the encrypting cipher, in call order
    decrypted,  \* ghost: outputs of the decrypting cipher, in call order
    delivered,  \* ghost: bytes the reads have handed to the caller, in order
    zeros,      \* ghost: reads with a non-empty buffer that returned Ok(0)
    shut,       \* ghost: poll_shutdown has been invoked
    reading,    \* the reader's side of the pipe has started reading
    e_errs,     \* ghost: error returns of the EncryptWriter
    d_errs,     \* ghost: error returns of the DecryptReader
    last,       \* ghost: the last handler invocation and what it returned
    reply,      \* ghost: what the last invocation's callees answered
    run,        \* the invocation in progress, when followed poll by poll
    env         \* what the environment and the caller may do (fixed)

vars == <<enc, dec, sink, closed, srcPos, plain, chunks, produced, decrypted,
          delivered, zeros, shut, reading, e_errs, d_errs, last, reply, run,
          env>>

\* env.faults : the underlying I/O may answer Err and cipher calls may fail
\* env.strict : the caller keeps to the contract (no write after shutdown,
\*              no call on an adapter that returned an error, no read into
\*              an empty buffer) and the source answers Ok(0) only at its end
\* env.empty  : the caller may pass poll_read a buffer of length zero
Envs == [faults : BOOLEAN, strict : BOOLEAN, empty : BOOLEAN]

IsErr(res) == res \in {"err_io", "err_other"}

NoCall ==
    [op |-> "none", ret |-> [res |-> "ok", n |-> 0], calls |-> <<>>,
     arg |-> <<>>, cap |-> 0, pre |-> <<>>]

\* What the callees of one invocation answered: `drain` is the answer of
\* the sink's last poll_write, `io` that of the sink's poll_flush or
\* poll_shutdown or of the source's poll_read ("ok", "pending", "err_io"),
\* `cipher` that of the cipher call ("ok", "err"); "none" when no such call
\* was made.
NoReply == [drain |-> "none", io |-> "none", cipher |-> "none"]

\* No invocation is being followed poll by poll.  Of one that is: the
\* handler, its input slice, the calls it has made, the number of its
\* poll_write calls on the sink and the bytes the sink took in them.
Idle == [op |-> "none", arg |-> <<>>, calls |-> <<>>, polls |-> 0, took |-> 0]

Init ==
    /\ enc = NewEncryptWriter
    /\ dec = NewDecryptReader
    /\ sink = <<>>
    /\ closed = FALSE
    /\ srcPos = 0
    /\ plain = <<>>
    /\ chunks = <<>>
    /\ produced = <<>>
    /\ decrypted = <<>>
    /\ delivered = <<>>
    /\ zeros = 0
    /\ shut = FALSE
    /\ reading = FALSE
    /\ e_errs = 0
    /\ d_errs = 0
    /\ last = NoCall
    /\ reply = NoReply
    /\ run = Idle
    /\ env \in Envs

\* The answers the sink may give to the poll_write calls of one drain.
Scripts == SeqsUpTo({1, MaxPlain + 2 * BlockSize}, MaxPolls)
Stops == IF env.faults THEN {"pending", "err_io"} ELSE {"pending"}
\* The answers of the sink's poll_flush and poll_shutdown.
Answers == IF env.faults THEN {"ok", "pending", "err_io"} ELSE {"ok", "pending"}
\* Whether a cipher call may fail: a fault, or a call after finalize, whose
\* result the library leaves open.
CipherFails(crypter) ==
    IF env.faults \/ crypter.nfin > 0 THEN BOOLEAN ELSE {FALSE}

\* The caller drops an adapter that returned an error, unless it misuses it.
EncUsable == e_errs = 0 \/ (~env.strict /\ e_errs <= MaxErrs)
DecUsable == d_errs = 0 \/ (~env.strict /\ d_errs <= MaxErrs)

\* The pipe is read once the writing side is over: the sink is shut down
\* or the writer was dropped; nothing is written once reading has started.
Writing == ~reading /\ EncUsable
Readable == DecUsable /\ (closed \/ ~EncUsable)

\* How often `name` occurs in the call log.
Count(calls, name) == Cardinality({i \in 1 .. Len(calls) : calls[i] = name})

\* The sink's and the cipher's answers are drawn only as far as the handler
\* asks for them: every Ok(n) of the script was used by a poll_write, and
\* an answer that was never asked for is left at its first value.
Asked(o, script, stop, ures, cfail) ==
    LET polls == Count(o.calls, "w.poll_write")
        stopped == polls = Len(script) + 1
    IN  /\ polls >= Len(script)
        /\ stopped \/ stop = "pending"
        /\ ures = "ok" \/ o.calls[Len(o.calls)] \in {"w.poll_flush", "w.poll_shutdown"}
        /\ ~cfail \/ Count(o.calls, "update") + Count(o.calls, "finalize") > 0

\* The call log with each run of repeated calls (the poll_write calls of
\* one drain) written once.
RECURSIVE Runs(_)
Runs(calls) ==
    IF Len(calls) < 2 THEN calls
    ELSE IF calls[1] = calls[2] THEN Runs(Tail(calls))
    ELSE <<calls[1]>> \o Runs(Tail(calls))

\* The ghost record of an EncryptWriter invocation.
EncCall(op, input, o) ==
    [op |-> op, ret |-> o.ret, calls |-> Runs(o.calls), arg |-> input,
     cap |-> 0, pre |-> o.pre]

\* What the sink and the cipher answered in an EncryptWriter invocation
\* that made the calls o.calls: the sink's poll_write answers Ok as long as
\* the script lasts and `stop` after it, its poll_flush or poll_shutdown
\* answers `ures`, the cipher fails when `cfail`.
EncReply(o, script, stop, ures, cfail) ==
    LET polls == Count(o.calls, "w.poll_write")
        forwarded == Count(o.calls, "w.poll_flush")
                       + Count(o.calls, "w.poll_shutdown")
        ciphered == Count(o.calls, "update") + Count(o.calls, "finalize")
    IN  [drain |-> IF polls > Len(script) THEN stop
                   ELSE IF polls > 0 THEN "ok" ELSE "none",
         io |-> IF forwarded > 0 THEN ures ELSE "none",
         cipher |-> IF ciphered = 0 THEN "none"
                    ELSE IF cfail THEN "err" ELSE "ok"]

\* The effect of an EncryptWriter handler that returned outcome o.
EncApply(op, input, o) ==
    /\ enc' = o.self
    /\ sink' = o.sink
    /\ closed' = o.closed
    /\ produced' = produced \o o.out
    /\ plain' = IF op = "write" /\ o.ret.res = "ok" THEN plain \o input ELSE plain
    /\ chunks' = IF op = "write" /\ o.ret.res = "ok" /\ Len(input) > 0
                 THEN Append(chunks, Len(input)) ELSE chunks
    /\ shut' = (shut \/ op = "shutdown")
    /\ e_errs' = IF IsErr(o.ret.res) THEN e_errs + 1 ELSE e_errs
    /\ last' = EncCall(op, input, o)
    /\ UNCHANGED <<dec, srcPos, decrypted, delivered, zeros, reading, d_errs,
                    env>>

\* The caller invokes poll_write with a slice of at most MaxChunk bytes.
Write ==
    /\ Writing
    /\ ~env.strict \/ ~shut
    /\ \E input \in SeqsUpTo(InputByte, MaxChunk), script \in Scripts, stop \in Stops,
          cfail \in CipherFails(enc.crypter) :
        LET o == poll_write(enc, sink, closed, input, script, stop, cfail)
        IN  /\ Len(plain) + Len(input) <= MaxPlain
            /\ Asked(o, script, stop, "ok", cfail)
            /\ EncApply("write", input, o)
            /\ reply' = EncReply(o, script, stop, "ok", cfail)
            /\ UNCHANGED run

\* The caller invokes poll_flush.
Flush ==
    /\ Writing
    /\ \E script \in Scripts, stop \in Stops, ures \in Answers :
        LET o == poll_flush(enc, sink, closed, script, stop, ures)
        IN  /\ Asked(o, script, stop, ures, FALSE)
            /\ EncApply("flush", <<>>, o)
            /\ reply' = EncReply(o, script, stop, ures, FALSE)
            /\ UNCHANGED run

\* The caller invokes poll_shutdown.
Shutdown ==
    /\ Writing
    /\ \E script \in Scripts, stop \in Stops, ures \in Answers,
          cfail \in CipherFails(enc.crypter) :
        LET o == poll_shutdown(enc, sink, closed, script, stop, cfail, ures)
        IN  /\ Asked(o, script, stop, ures, cfail)
            /\ EncApply("shutdown", <<>>, o)
            /\ reply' = EncReply(o, script, stop, ures, cfail)
            /\ UNCHANGED run

\* The answers the source may give to a poll_read into a buffer of `cap`
\* bytes: the next 1..cap bytes of the pipe; Ok(0) at the end of the pipe,
\* into an empty buffer, or at any time from a transient source; Pending;
\* Err.
SourceAnswers(cap) ==
    LET avail == Len(sink) - srcPos
    IN  {<<"ok", SubSeq(sink, srcPos + 1, srcPos + n)>> :
            n \in 1 .. Min(cap, avail)}
        \cup (IF avail = 0 \/ cap = 0 \/ ~env.strict
              THEN {<<"ok", <<>> >>} ELSE {})
        \cup {<<"pending", <<>> >>}
        \cup (IF env.faults THEN {<<"err_io", <<>> >>} ELSE {})

Caps == IF env.empty THEN 0 .. MaxCap ELSE 1 .. MaxCap

\* What the source and the cipher answered in a poll_read that made the
\* calls o.calls: the source answered `sres`; finalize fails as DecFinalize
\* does, update when `cfail`.
DecReply(o, self, sres, cfail) ==
    [drain |-> "none",
     io |-> IF Count(o.calls, "r.poll_read") > 0 THEN sres ELSE "none",
     cipher |-> IF Count(o.calls, "finalize") > 0
                THEN (IF DecFinalize(self.crypter, cfail).ok THEN "ok" ELSE "err")
                ELSE IF Count(o.calls, "update") > 0
                THEN (IF cfail THEN "err" ELSE "ok")
                ELSE "none"]

\* The caller invokes poll_read with a buffer of cap bytes.
Read ==
    /\ Readable
    /\ dec.crypter.nfin < MaxFinal
    /\ \E cap \in Caps, cfail \in CipherFails(dec.crypter) :
       \E a \in SourceAnswers(cap) :
        LET o == poll_read(dec, cap, a[1], a[2], cfail)
        IN  /\ Len(o.calls) > 0 \/ a[1] = "pending"
            /\ Len(o.calls) > 1 \/ ~cfail
            /\ dec' = o.self
            /\ reading' = TRUE
            /\ srcPos' = srcPos + o.taken
            /\ decrypted' = decrypted \o o.out
            /\ delivered' = delivered \o o.data
            /\ zeros' = IF o.ret.res = "ok" /\ o.ret.n = 0 /\ cap > 0 /\ zeros < 2
                        THEN zeros + 1 ELSE zeros
            /\ d_errs' = IF IsErr(o.ret.res) THEN d_errs + 1 ELSE d_errs
            /\ last' = [op |-> "read", ret |-> o.ret, calls |-> o.calls,
                        arg |-> <<>>, cap |-> cap, pre |-> <<>>]
            /\ reply' = DecReply(o, dec, a[1], cfail)
            /\ UNCHANGED <<enc, sink, closed, plain, chunks, produced, shut,
                            e_errs, run, env>>

\* The pipe: the writer's calls, then the reader's.
Next == Write \/ Flush \/ Shutdown \/ Read

\* The contract's setting, end to end: no faults, a caller that keeps to
\* the contract, a source that answers Ok(0) only at its end.
Clean == [faults |-> FALSE, strict |-> TRUE, empty |-> FALSE]
CleanInit == Init /\ env = Clean
Spec == CleanInit /\ [][Next]_vars

\* Every environment and every caller: what it may do includes all that
\* any more restricted environment may do.
Hostile == [faults |-> TRUE, strict |-> FALSE, empty |-> TRUE]

\* The pipe under faults: the underlying I/O may answer Err, cipher calls
\* may fail, the reader may be handed an empty buffer; the caller keeps to
\* the contract and drops an adapter that returned an error.
Faulty == [faults |-> TRUE, strict |-> TRUE, empty |-> TRUE]
InitFaulty == Init /\ env = Faulty
SpecFaulty == InitFaulty /\ [][Next]_vars

\* The EncryptWriter alone, under every environment and every caller.
NextEnc == Write \/ Flush \/ Shutdown
InitEnc == Init /\ env = Hostile
SpecEnc == InitEnc /\ [][NextEnc]_vars

\* The DecryptReader alone, under every environment and every caller, over
\* a source that holds any byte sequence of at most MaxWire bytes.
MaxWire == 2 * BlockSize
InitDec ==
    /\ sink \in SeqsUpTo(InputByte, MaxWire)
    /\ closed = TRUE
    /\ enc = NewEncryptWriter
    /\ dec = NewDecryptReader
    /\ srcPos = 0
    /\ plain = <<>>
    /\ chunks = <<>>
    /\ produced = <<>>
    /\ decrypted = <<>>
    /\ delivered = <<>>
    /\ zeros = 0
    /\ shut = FALSE
    /\ reading = TRUE
    /\ e_errs = 0
    /\ d_errs = 0
    /\ last = NoCall
    /\ reply = NoReply
    /\ run = Idle
    /\ env = Hostile
NextDec == Read
SpecDec == InitDec /\ [][NextDec]_vars

\* ------------------------------------------- the drain, poll by poll
\* The EncryptWriter with each handler invocation followed through the
\* iterations of poll_write_buf's loop: the handler is entered, each
\* iteration calls the sink's poll_write once, and the handler returns when
\* the sink answers Pending or Err or when the loop ends.  The sink may
\* answer Ok(n) for every n from 0 to the number of bytes it is offered.

\* The caller invokes poll_write: control reaches the drain loop.
BeginWrite ==
    /\ run = Idle
    /\ Writing
    /\ ~shut
    /\ \E input \in SeqsUpTo(InputByte, MaxChunk) :
        /\ Len(plain) + Len(input) <= MaxPlain
        /\ run' = [Idle EXCEPT !.op = "write", !.arg = input]
    /\ UNCHANGED <<enc, dec, sink, closed, srcPos, plain, chunks, produced,
                    decrypted, delivered, zeros, shut, reading, e_errs,
                    d_errs, last, reply, env>>

\* The caller invokes poll_flush: control reaches the drain loop.
BeginFlush ==
    /\ run = Idle
    /\ Writing
    /\ run' = [Idle EXCEPT !.op = "flush"]
    /\ UNCHANGED <<enc, dec, sink, closed, srcPos, plain, chunks, produced,
                    decrypted, delivered, zeros, shut, reading, e_errs,
                    d_errs, last, reply, env>>

\* The caller invokes poll_shutdown: the finalize step, unless it has run,
\* appends its output to the buffer; control reaches the drain loop.
BeginShutdown ==
    /\ run = Idle
    /\ Writing
    /\ LET init_len == Len(enc.buf)
           resized == Resize(enc.buf, init_len + BlockSize)
           f == EncFinalize(enc.crypter, FALSE)
       IN  IF enc.is_finalized
           THEN /\ run' = [Idle EXCEPT !.op = "shutdown"]
                /\ UNCHANGED <<enc, produced>>
           ELSE /\ enc' = [enc EXCEPT
                             !.buf = Truncate(WriteInto(resized, init_len, f.out),
                                              init_len + Len(f.out)),
                             !.crypter = f.st,
                             !.is_finalized = TRUE]
                /\ produced' = produced \o f.out
                /\ run' = [Idle EXCEPT !.op = "shutdown", !.calls = <<"finalize">>]
    /\ shut' = TRUE
    /\ UNCHANGED <<dec, sink, closed, srcPos, plain, chunks, decrypted,
                    delivered, zeros, reading, e_errs, d_errs, last, reply, env>>

\* The handler in progress returns outcome o.
Return(o, drain, io, cipher) ==
    /\ EncApply(run.op, run.arg, [o EXCEPT !.calls = run.calls \o @])
    /\ reply' = [drain |-> drain, io |-> io, cipher |-> cipher]
    /\ run' = Idle

\* One iteration of the loop of poll_write_buf: the sink's poll_write is
\* offered buf[written..] and answers Ok(n), Pending or Err.
DrainPoll ==
    /\ run.op # "none"
    /\ enc.written < Len(enc.buf)
    /\ run.polls < MaxAttempts
    /\ \E a \in {<<"ok", n>> : n \in 0 .. Len(enc.buf) - enc.written}
                  \cup {<<stop, 0>> : stop \in Stops} :
        IF a[1] = "ok"
        THEN /\ enc' = [enc EXCEPT !.written = enc.written + a[2]]
             /\ sink' = sink \o SubSeq(enc.buf, enc.written + 1, enc.written + a[2])
             /\ run' = [run EXCEPT !.polls = run.polls + 1,
                                   !.took = run.took + a[2],
                                   !.calls = Runs(Append(run.calls, "w.poll_write"))]
             /\ UNCHANGED <<dec, closed, srcPos, plain, chunks, produced,
                             decrypted, delivered, zeros, shut, reading,
                             e_errs, d_errs, last, reply, env>>
        ELSE Return(Outcome(a[1], 0, enc, sink, closed, <<"w.poll_write">>,
                            <<>>, <<>>),
                    a[1], "none", "none")

\* The loop of poll_write_buf ends (written has reached the buffer's
\* length): cursor and buffer are reset and the handler runs to its end, the
\* update of poll_write, the forwarded poll_flush or poll_shutdown.
DrainDone ==
    /\ run.op # "none"
    /\ enc.written >= Len(enc.buf)
    /\ \E ures \in Answers :
        LET o == CASE run.op = "write" ->
                        poll_write(enc, sink, closed, run.arg, <<>>, "pending", FALSE)
                   [] run.op = "flush" ->
                        poll_flush(enc, sink, closed, <<>>, "pending", ures)
                   [] OTHER ->
                        poll_shutdown(enc, sink, closed, <<>>, "pending", FALSE, ures)
        IN  /\ run.op = "write" => ures = "ok"
            /\ Return(o, IF run.polls > 0 THEN "ok" ELSE "none",
                      IF run.op = "write" THEN "none" ELSE ures,
                      IF run.op = "write" THEN "ok" ELSE "none")

NextDrain == BeginWrite \/ BeginFlush \/ BeginShutdown \/ DrainPoll \/ DrainDone
SpecDrain == CleanInit /\ [][NextDrain]_vars

\* ------------------------------------------------------------ the claims

\* The last invocation was a read that returned Ok(0) into a non-empty
\* buffer, and it is the first read to do so: the caller's end of stream.
FirstZero ==
    /\ last.op = "read"
    /\ last.ret = [res |-> "ok", n |-> 0]
    /\ last.cap > 0
    /\ zeros = 1

\* C1: round trip.  When the caller, having written the plaintext and
\* completed shutdown, reads until a read returns 0 bytes, the bytes it was
\* handed are exactly the plaintext.
C1_RoundTrip == FirstZero => delivered = plain

\* The ciphertext still in the output buffer, from the write cursor on.
Unflushed == SubSeq(enc.buf, enc.written + 1, Len(enc.buf))

\* C2: drain integrity.  At every moment the bytes the sink has accepted
\* are a prefix of the cipher's outputs in call order, the rest of those
\* outputs is exactly the unflushed part of the output buffer, and when
\* shutdown has returned Ok the sink holds all of them.
C2_DrainIntegrity ==
    /\ IsPrefix(sink, produced)
    /\ sink \o Unflushed = produced
    /\ closed => sink = produced

\* C2 witness: a shutdown that returned Pending after the sink took one
\* byte of a longer buffer.
C2_Witness ==
    /\ last.op = "shutdown"
    /\ last.ret.res = "pending"
    /\ enc.written = 1
    /\ Len(enc.buf) > BlockSize
    /\ Len(sink) > 0

\* What a caller receives from a DecryptReader whose source yields the whole
\* of `wire` in one read: the bytes of the reads up to the first that
\* returns 0 bytes or an error, or up to the end of the cipher's output.
RECURSIVE ReadWhole(_, _, _)
ReadWhole(self, wire, pos) ==
    LET o == poll_read(self, Len(wire) + BlockSize, "ok",
                       SubSeq(wire, pos + 1, Len(wire)), FALSE)
    IN  IF self.crypter.nfin > 0 /\ self.read = Len(self.buf) THEN <<>>
        ELSE IF o.ret.res # "ok" \/ o.ret.n = 0 THEN <<>>
        ELSE o.data \o ReadWhole(o.self, wire, pos + o.taken)

\* C3: partial I/O on the decrypt side.  However the source fragments the
\* ciphertext, the caller that reads until a read returns 0 bytes has
\* received what it receives when the source yields the ciphertext whole.
C3_FragmentedRead == FirstZero => delivered = ReadWhole(NewDecryptReader, sink, 0)

\* C4: chunk invariance.  Once shutdown has returned Ok the sink holds the
\* ciphertext of one full-length write followed by shutdown, however the
\* plaintext was split into writes.
C4_ChunkInvariance == closed => sink = Encrypt(plain)

\* C4 witness: the plaintext was written in more than one non-empty chunk
\* and the shutdown has completed.
C4_Witness == closed /\ Len(chunks) > 1

\* C5: finalize once on the encrypt side.  Whatever the number of shutdown
\* invocations, the cipher's finalize step has run once if shutdown was
\* ever invoked and not at all otherwise, and the cipher's output is the
\* update output for the plaintext plus one finalize block.
C5_FinalizeOnceEnc ==
    /\ enc.crypter.nfin = (IF shut THEN 1 ELSE 0)
    /\ enc.is_finalized = shut
    /\ Len(produced) = (Len(plain) \div BlockSize) * BlockSize
                         + (IF shut THEN BlockSize ELSE 0)

\* C5 witness: a shutdown invocation that resumed a drain and completed
\* without running finalize.
C5_Witness ==
    /\ last.op = "shutdown"
    /\ last.ret.res = "ok"
    /\ Count(last.calls, "finalize") = 0
    /\ Count(last.calls, "w.poll_write") > 0

\* C6: finalize once on the decrypt side.  A read made once finalize has
\* run and its output has been delivered returns 0 bytes (if it returns at
\* all) and does not run finalize again.
C6_FinalizeOnceDec ==
    [][(/\ last'.op = "read"
        /\ dec.crypter.nfin > 0
        /\ dec.read = Len(dec.buf)
        /\ last'.ret.res # "pending")
       => (/\ last'.ret = [res |-> "ok", n |-> 0]
           /\ Count(last'.calls, "finalize") = 0)]_vars

\* C7: the cipher protocol.  No update call is made on a cipher state on
\* which finalize has been called.
C7_NoUpdateAfterFinalize == ~enc.crypter.uaf /\ ~dec.crypter.uaf

\* C8: a write that returns Pending has consumed nothing.  It made no
\* cipher call and left the cipher state, the buffer and the flag as they
\* were; the cursor moved on by the bytes the sink accepted.
C8_PendingWriteFrame ==
    [][(last'.op = "write" /\ last'.ret.res = "pending")
       => (/\ enc'.crypter = enc.crypter
           /\ enc'.buf = enc.buf
           /\ enc'.is_finalized = enc.is_finalized
           /\ enc'.written >= enc.written
           /\ enc'.written < Len(enc.buf)
           /\ sink' = sink \o SubSeq(enc.buf, enc.written + 1, enc'.written)
           /\ Count(last'.calls, "update") = 0
           /\ plain' = plain
           /\ produced' = produced)]_vars

\* C8 witness: a write returned Pending after the sink accepted a byte.
C8_Witness ==
    /\ last.op = "write"
    /\ last.ret.res = "pending"
    /\ enc.written > 0

\* C9: a write that returns Ok.  The cipher's update ran with the output
\* buffer fully flushed, over the whole input slice; the write reports the
\* whole slice as accepted and leaves the buffer holding exactly the
\* update output, the cursor at zero.
C9_WriteOk ==
    [][(last'.op = "write" /\ last'.ret.res = "ok")
       => (/\ last'.pre[1] = last'.pre[2]
           /\ last'.calls[Len(last'.calls)] = "update"
           /\ Count(last'.calls, "update") = 1
           /\ last'.ret.n = Len(last'.arg)
           /\ enc'.buf = EncUpdate(enc.crypter, last'.arg, FALSE).out
           /\ enc'.crypter = EncUpdate(enc.crypter, last'.arg, FALSE).st
           /\ enc'.written = 0
           /\ sink' = sink \o Unflushed
           /\ plain' = plain \o last'.arg)]_vars

\* C9 witness: a write that found ciphertext buffered by an earlier write,
\* drained all of it to the sink, then ran update over a non-empty slice
\* and returned Ok.
C9_Witness ==
    /\ last.op = "write"
    /\ last.ret.res = "ok"
    /\ Count(last.calls, "w.poll_write") > 0
    /\ last.pre = <<0, 0>>
    /\ Len(last.arg) > 0

\* C10: zero-length input.  With no plaintext written, the completed
\* shutdown leaves in the sink exactly one finalize output, and the reader
\* hands the caller no byte.
C10_EmptyInput ==
    Len(plain) = 0 =>
        /\ closed => sink = EncFinalize(NewCrypter, FALSE).out
        /\ closed => Len(sink) = BlockSize
        /\ Len(delivered) = 0

\* C10 witness: nothing was written, the shutdown completed, and the
\* reader has read the finalize block to the end of input and finalized.
C10_Witness ==
    /\ Len(plain) = 0
    /\ closed
    /\ srcPos = Len(sink)
    /\ dec.crypter.nfin > 0
    /\ zeros > 1

\* The last call of the last invocation, "none" if it made no call.
LastCall == IF Len(last.calls) = 0 THEN "none" ELSE last.calls[Len(last.calls)]

\* The cipher calls of the last invocation.
CipherCalls == Count(last.calls, "update") + Count(last.calls, "finalize")

\* C11: error surfacing.  An invocation in which an underlying call
\* answered an error returns that error, and the failing call is the last
\* call it made (no retry, no further cipher or underlying call); an
\* invocation whose cipher call failed returns an error of kind Other,
\* the cipher call being the last call it made.
C11_ErrorSurfacing ==
    /\ reply.drain = "err_io"
         => last.ret.res = "err_io" /\ LastCall = "w.poll_write"
    /\ reply.io = "err_io"
         => /\ last.ret.res = "err_io"
            /\ LastCall \in {"w.poll_flush", "w.poll_shutdown", "r.poll_read"}
            /\ Count(last.calls, LastCall) = 1
            /\ last.op = "read" => CipherCalls = 0
    /\ reply.cipher = "err"
         => /\ last.ret.res = "err_other"
            /\ LastCall \in {"update", "finalize"}
            /\ CipherCalls = 1
    /\ last.ret.res = "err_io" => "err_io" \in {reply.drain, reply.io}
    /\ last.ret.res = "err_other" => reply.cipher = "err"

\* C11 witness: the reader's finalize failed after the writer's shutdown
\* had been cut short by an error of the sink.
C11_Witness ==
    /\ e_errs > 0
    /\ ~closed
    /\ Len(sink) > 0
    /\ last.op = "read"
    /\ reply.cipher = "err"
    /\ LastCall = "finalize"

\* C12: the output buffer's content.  After any calls with any outcomes,
\* the bytes of the output buffer from the write cursor on are exactly the
\* cipher's output that the sink has not yet accepted.
C12_BufferContent ==
    /\ Len(sink) <= Len(produced)
    /\ Unflushed = SubSeq(produced, Len(sink) + 1, Len(produced))

\* C13: cursor bounds.  The write cursor never exceeds the length of the
\* output buffer, nor the read cursor that of the decrypted buffer (the
\* sink accepting at most the bytes it is offered).
C13_CursorBounds ==
    /\ enc.written <= Len(enc.buf)
    /\ dec.read <= Len(dec.buf)

\* C13 witness: both cursors strictly inside their buffers: a drain cut
\* short after a partial write, and a read that copied out less than the
\* cipher had released.
C13_Witness ==
    /\ enc.written > 0
    /\ enc.written < Len(enc.buf)
    /\ dec.read > 0
    /\ dec.read < Len(dec.buf)

\* The writer alone, free of faults, under a caller that does not keep to
\* the contract: it may write after a shutdown and go on after an error.
Misuse == [faults |-> FALSE, strict |-> FALSE, empty |-> FALSE]
InitMisuse == Init /\ env = Misuse
SpecEncMisuse == InitMisuse /\ [][NextEnc]_vars

\* The writer alone under faults, its caller keeping to the contract.
SpecEncFaulty == InitFaulty /\ [][NextEnc]_vars

\* C14: shutdown ordering.  The sink's poll_shutdown is called only by
\* poll_shutdown, once, as its last call, with finalize run, the output
\* buffer empty, the cursor at zero and every byte the cipher produced in
\* the sink; a drain that answered Pending or an error is followed by no
\* poll_shutdown of the sink.
C14_ShutdownOrdering ==
    /\ Count(last.calls, "w.poll_shutdown") > 0
         => /\ last.op = "shutdown"
            /\ LastCall = "w.poll_shutdown"
            /\ Count(last.calls, "w.poll_shutdown") = 1
            /\ enc.is_finalized
            /\ enc.crypter.nfin > 0
            /\ enc.buf = <<>>
            /\ enc.written = 0
            /\ sink = produced
            /\ reply.drain \in {"none", "ok"}
    /\ reply.drain \in {"pending", "err_io"}
         => Count(last.calls, "w.poll_shutdown") = 0
    /\ closed => enc.is_finalized /\ sink = produced

\* C14 witness: a shutdown invocation ran finalize with ciphertext of an
\* earlier write still buffered, drained both in several partial writes and
\* called the sink's poll_shutdown.
C14_Witness ==
    /\ last.op = "shutdown"
    /\ last.calls = <<"finalize", "w.poll_write", "w.poll_shutdown">>
    /\ last.pre[2] > 0
    /\ Len(sink) > BlockSize

\* C15: flush ordering.  A poll_flush invocation calls the sink's
\* poll_flush at most once, as its last call, with the output buffer empty
\* and the cursor at zero; it makes no cipher call and leaves the cipher
\* state, the flag and the cipher's output as they were; it returns Pending
\* exactly when the drain or the forwarded flush answered Pending, and
\* otherwise what the forwarded flush answered.
C15_FlushOrdering ==
    [][last'.op = "flush"
       => (/\ Count(last'.calls, "w.poll_flush") > 0
                => /\ LastCall' = "w.poll_flush"
                   /\ Count(last'.calls, "w.poll_flush") = 1
                   /\ enc'.buf = <<>>
                   /\ enc'.written = 0
                   /\ sink' = sink \o Unflushed
                   /\ reply'.drain \in {"none", "ok"}
                   /\ last'.ret.res = reply'.io
           /\ reply'.drain \in {"pending", "err_io"}
                => Count(last'.calls, "w.poll_flush") = 0
           /\ CipherCalls' = 0
           /\ enc'.crypter = enc.crypter
           /\ enc'.is_finalized = enc.is_finalized
           /\ produced' = produced
           /\ (last'.ret.res = "pending")
                = ("pending" \in {reply'.drain, reply'.io}))]_vars

\* C15 witness: a flush drained buffered ciphertext in partial writes, then
\* the sink's poll_flush answered Pending.
C15_Witness ==
    /\ last.op = "flush"
    /\ last.calls = <<"w.poll_write", "w.poll_flush">>
    /\ reply.io = "pending"
    /\ last.ret.res = "pending"
    /\ Len(sink) > 0

\* The contract's setting with one more freedom of the caller: poll_read
\* may be handed a buffer of length zero.
CleanEmpty == [faults |-> FALSE, strict |-> TRUE, empty |-> TRUE]
InitEmpty == Init /\ env = CleanEmpty
SpecEmpty == InitEmpty /\ [][Next]_vars

\* The unread bytes of the decrypted buffer, from the read cursor on.
Unread == SubSeq(dec.buf, dec.read + 1, Len(dec.buf))

C17_NoPrematureZero ==
    (last.op = "read" /\ last.ret = [res |-> "ok", n |-> 0] /\ last.cap > 0)
        => /\ dec.crypter.nfin > 0
           /\ srcPos = Len(sink)
           /\ delivered = decrypted

\* C18: finalize only at the true end of input.  Whatever the length of
\* the caller's buffer, zero included, the decrypting cipher's finalize has
\* run only if the source has yielded every byte of the pipe.
C18_FinalizeAtEnd == dec.crypter.nfin > 0 => srcPos = Len(sink)

\* C20: delivery on the read side.  Whatever the lengths of the caller's
\* buffers and the Pending answers of the source, the bytes handed to the
\* caller are a prefix of the decrypting cipher's outputs in call order,
\* and as long as no read has returned an error the rest of those outputs
\* is exactly the unread part of the decrypted buffer.
C20_ReadDelivery ==
    /\ IsPrefix(delivered, decrypted)
    /\ d_errs = 0 => delivered \o Unread = decrypted

\* C20 witness: cipher output that did not fit the caller's buffer was
\* handed over by a later read from the decrypted buffer, and the caller
\* now has all the cipher has released, more than one block.
C20_Witness ==
    /\ last.op = "read"
    /\ last.calls = <<>>
    /\ last.ret.n > 0
    /\ delivered = decrypted
    /\ Len(delivered) >= BlockSize
    /\ delivered # Zeros(Len(delivered))

\* C19: the drain terminates.  Within one invocation every poll_write
\* call on the sink but the latest took at least one byte, so that an
\* invocation makes at most one more such call than it drains bytes,
\* whatever the sink answers, an answer of Ok(0) included.
C19_DrainProgress == run.polls <= run.took + 1

====
